---- MODULE Spec2Model ----
(***************************************************************************)
(* The property store of src/server.js: ensureDataDir, getProperties,      *)
(* saveProperties and getPropertyById, run by concurrent callers over one  *)
(* backing directory and one backing file.  Every `await` of the source is *)
(* a point where another caller's step may be scheduled, so each awaited   *)
(* file-system call is one action.                                         *)
(***************************************************************************)
EXTENDS Integers, Sequences, FiniteSets, TLC

\* Bounds of the model.
MaxClock == 1      \* the wall clock takes the values 0..MaxClock

\* Callers whose operations overlap one another.
Callers == {"c1", "c2"}
\* The caller that runs one operation after another; its consecutive
\* operations are recorded.
Observed == "c0"
AllCallers == Callers \cup {Observed}

(***************************************************************************)
(* JavaScript values.  Every value carries its type so that values of      *)
(* different types can be compared.  An ISO-8601 time stamp is the string  *)
(* produced by Date.prototype.toISOString; the string is determined by the *)
(* clock reading it was made from, kept in num, and ISO strings order as   *)
(* their clock readings do.                                                *)
(***************************************************************************)
Str(s) == [type |-> "string", str |-> s, num |-> 0]
Num(n) == [type |-> "number", str |-> "", num |-> n]
Bool(b) == [type |-> "boolean", str |-> "", num |-> IF b THEN 1 ELSE 0]
Undefined == [type |-> "undefined", str |-> "", num |-> 0]
\* new Date().toISOString() at clock reading t
ToISOString(t) == [type |-> "string", str |-> "ISO-8601", num |-> t]
\* an array literal holding the one string url
Images(url) == [type |-> "array", str |-> url, num |-> 1]
NoImages == [type |-> "array", str |-> "", num |-> 0]

\* obj.key : a missing property reads as undefined
Get(obj, key) == IF key \in DOMAIN obj THEN obj[key] ELSE Undefined

(***************************************************************************)
(* The object literal of getProperties' catch block.  ts are the six       *)
(* readings of the clock made by its six `new Date()` expressions, in      *)
(* evaluation order.                                                       *)
(***************************************************************************)
DefaultProperties(ts) ==
    << [ _id |-> Str("prop_1"),
         name |-> Str("Modern Family Home"),
         price |-> Str("$750,000"),
         location |-> Str("123 Oak Street, Riverside"),
         bedrooms |-> Num(4),
         bathrooms |-> Num(3),
         sqft |-> Num(2500),
         status |-> Str("for-sale"),
         description |-> Str("Beautiful modern family home with spacious rooms and great location."),
         images |-> Images("https://images.unsplash.com/photo-1505843513577-22bb7d21e455?ixlib=rb-4.0.3&auto=format&fit=crop&w=500&q=80"),
         featured |-> Bool(TRUE),
         dateCreated |-> ToISOString(ts[1]),
         dateUpdated |-> ToISOString(ts[2]) ],
       [ _id |-> Str("prop_2"),
         name |-> Str("Downtown Condo"),
         price |-> Str("$450,000"),
         location |-> Str("456 City Center, Downtown"),
         bedrooms |-> Num(2),
         bathrooms |-> Num(2),
         sqft |-> Num(1200),
         status |-> Str("for-sale"),
         description |-> Str("Stylish downtown condo with city views and modern amenities."),
         images |-> Images("https://images.unsplash.com/photo-1502672260266-1c1ef2d93688?ixlib=rb-4.0.3&auto=format&fit=crop&w=500&q=80"),
         featured |-> Bool(TRUE),
         dateCreated |-> ToISOString(ts[3]),
         dateUpdated |-> ToISOString(ts[4]) ],
       [ _id |-> Str("prop_3"),
         name |-> Str("Luxury Villa"),
         price |-> Str("$1,250,000"),
         location |-> Str("789 Pine Avenue, Hillcrest"),
         bedrooms |-> Num(5),
         bathrooms |-> Num(4),
         sqft |-> Num(3800),
         status |-> Str("for-sale"),
         description |-> Str("Stunning luxury villa with premium finishes and mountain views."),
         images |-> Images("https://images.unsplash.com/photo-1512917774080-9991f1c4c750?ixlib=rb-4.0.3&auto=format&fit=crop&w=500&q=80"),
         featured |-> Bool(TRUE),
         dateCreated |-> ToISOString(ts[5]),
         dateUpdated |-> ToISOString(ts[6]) ] >>

\* The readings six successive `new Date()` can make when the clock shows
\* `from` at the first of them: the clock does not run backwards.
ClockReadings(from) ==
    { ts \in [1..6 -> from..MaxClock] : \A i \in 1..5 : ts[i] <= ts[i+1] }

(***************************************************************************)
(* JSON text, as a sequence of tokens.  JSON.stringify(properties, null, 2)*)
(* writes "[", then each object as "{", one "key": value member for every  *)
(* own property whose value is not undefined, "}", and then "]".           *)
(***************************************************************************)
Tok(t) == [t |-> t, k |-> "", v |-> Undefined]
Member(key, val) == [t |-> "member", k |-> key, v |-> val]

\* Own property names in the order the text lists them.
KeyOrder ==
    << "_id", "id", "name", "price", "location", "bedrooms", "bathrooms", "sqft",
       "status", "description", "images", "featured", "dateCreated", "dateUpdated" >>

RECURSIVE StringifyMembers(_, _)
StringifyMembers(obj, i) ==
    IF i > Len(KeyOrder) THEN << >>
    ELSE LET key == KeyOrder[i]
         IN  (IF key \in DOMAIN obj /\ obj[key].type # "undefined"
              THEN << Member(key, obj[key]) >> ELSE << >>)
             \o StringifyMembers(obj, i + 1)

StringifyObject(obj) == << Tok("{") >> \o StringifyMembers(obj, 1) \o << Tok("}") >>

RECURSIVE StringifyElements(_, _)
StringifyElements(properties, i) ==
    IF i > Len(properties) THEN << >>
    ELSE StringifyObject(properties[i]) \o StringifyElements(properties, i + 1)

\* JSON.stringify(properties, null, 2)
Stringify(properties) ==
    << Tok("[") >> \o StringifyElements(properties, 1) \o << Tok("]") >>

(***************************************************************************)
(* JSON.parse: the text must be "[", objects, "]" and nothing after it.    *)
(* ParseFrom yields [ok |-> FALSE] where JSON.parse throws a SyntaxError.  *)
(***************************************************************************)
\* Index of the first token at or after i that is not a member (0: none).
RECURSIVE MembersEnd(_, _)
MembersEnd(text, i) ==
    IF i > Len(text) THEN 0
    ELSE IF text[i].t = "member" THEN MembersEnd(text, i + 1)
    ELSE i

\* The object whose members are text[i..j]; a repeated key keeps its last value.
ObjectOf(text, i, j) ==
    [ key \in { text[m].k : m \in i..j } |->
        text[ CHOOSE m \in i..j :
                /\ text[m].k = key
                /\ \A n \in (m+1)..j : text[n].k # key ].v ]

RECURSIVE ParseFrom(_, _, _)
ParseFrom(text, i, acc) ==
    IF i > Len(text) THEN [ok |-> FALSE, val |-> << >>]
    ELSE IF text[i].t = "]"
         THEN [ok |-> (i = Len(text)), val |-> IF i = Len(text) THEN acc ELSE << >>]
    ELSE IF text[i].t = "{"
         THEN LET j == MembersEnd(text, i + 1)
              IN  IF j > 0 /\ text[j].t = "}"
                  THEN ParseFrom(text, j + 1, Append(acc, ObjectOf(text, i + 1, j - 1)))
                  ELSE [ok |-> FALSE, val |-> << >>]
    ELSE [ok |-> FALSE, val |-> << >>]

\* JSON.parse(data)
Parse(data) ==
    IF Len(data) >= 1 /\ data[1].t = "[" THEN ParseFrom(data, 2, << >>)
    ELSE [ok |-> FALSE, val |-> << >>]

\* The text of the JSON literal null.
NullText == << Tok("null") >>

\* What JSON.parse(data) yields: an array (Parse gives its elements), the
\* value null, an object that is not an array, or a SyntaxError.
ShapeOf(data) ==
    IF Parse(data).ok THEN "array"
    ELSE IF data = NullText THEN "null"
    ELSE IF /\ Len(data) >= 2
            /\ data[1].t = "{"
            /\ MembersEnd(data, 2) = Len(data)
            /\ data[Len(data)].t = "}"
         THEN "object"
    ELSE "invalid"

(***************************************************************************)
(* Collections handed to saveProperties by callers.  Loft is the record of *)
(* a caller that follows the field names of the seeded records.            *)
(***************************************************************************)
Listing(idKey, idVal, title, created, updated) ==
    (idKey :> Str(idVal)) @@
    [ name |-> Str(title),
      price |-> Str("$300,000"),
      location |-> Str("X"),
      bedrooms |-> Num(1),
      bathrooms |-> Num(1),
      sqft |-> Num(500),
      status |-> Str("for-sale"),
      description |-> Str("d"),
      images |-> NoImages,
      featured |-> Bool(FALSE),
      dateCreated |-> ToISOString(created),
      dateUpdated |-> ToISOString(updated) ]

Loft == Listing("_id", "prop_9", "Test Loft", 0, 0)
Cabin == Listing("_id", "prop_10", "Cabin", 0, 0)
\* a second record carrying Loft's identifier
LoftAgain == Listing("_id", "prop_9", "Other Loft", 0, 0)
\* a record with a property whose value is undefined
Sparse == [Loft EXCEPT !["description"] = Undefined]

\* a record whose dateUpdated is earlier than its dateCreated
Backdated == Listing("_id", "prop_11", "Backdated", 1, 0)

SaveInputs ==
    { << Loft >>, << Loft, Cabin >>, << Loft, LoftAgain >>, << Sparse >>,
      << Backdated >> }

IdInputs == { "prop_1", "prop_9" }

\* The record a caller adds in a read-modify-write cycle.
Extra(c) == Listing("_id", "prop_" \o c, "Added", 0, 0)

VARIABLES
    dirExists,     \* DATA_DIR is present
    dirCreatable,  \* fs.mkdir(DATA_DIR) can succeed (permissions, valid path)
    file,          \* PROPERTIES_FILE: [exists, text]
    clock,         \* the wall clock read by new Date()
    pc,            \* per caller: the awaited call it is suspended at
    op,            \* per caller: the store operation it is running
    arg,           \* per caller: the id passed to getPropertyById
    props,         \* per caller: `properties` of saveProperties
    buf,           \* per caller: the text handed to fs.writeFile
    fd,            \* per caller: its open descriptor names the current file
    result,        \* per caller: what the operation returned or raised
    readSaw,       \* per caller: what its fs.readFile + JSON.parse met
    mkdirs,        \* per caller: fs.mkdir calls made by the operation
    rmw,           \* per caller: `properties` was made from a collection it read
    prev,          \* Observed's previous operation, its input and outcome
    disturbed,     \* another party changed the file since Observed's operation began
    disturbedPrev, \* the same since Observed's previous operation began
    timers,        \* the browser's pending setTimeout / setInterval timers
    popup,         \* main.js PopupManager and the listeners it registered
    nav,           \* main.js MobileNavigation: classes of its elements
    deb,           \* one function made by main.js debounce(func, wait)
    legacy,        \* the popup of the legacy script
    form,          \* main.js FormValidator: one form and its inputs
    navbar,        \* main.js NavbarScroll
    contact        \* the contact form of the legacy script

\* The property store of server.js.
store ==
    << dirExists, dirCreatable, file, clock, pc, op, arg, props, buf, fd,
       result, readSaw, mkdirs, rmw, prev, disturbed, disturbedPrev >>

\* The page in the browser.
\* The forms and the navbar of the page.
forms == << form, navbar, contact >>

page == << timers, popup, nav, deb, legacy, forms >>

vars == << store, page >>

\* A page on which no script has run: nothing is scheduled, no listener is
\* registered and no element carries a class.
NoTimers == << >>

PopupUnbound ==
    [active |-> FALSE, hasInteracted |-> FALSE, scrollBound |-> FALSE,
     clickBound |-> FALSE, fontsPending |-> FALSE, fallbackTimer |-> 0,
     popupInterval |-> 0, scheduled |-> 0]

NavInactive ==
    [sidebar |-> FALSE, overlay |-> FALSE, toggle |-> FALSE, overflow |-> "",
     dropdowns |-> {}]

NoDebounce ==
    [wait |-> 0, timeout |-> 0, args |-> "", sinceCall |-> 0, called |-> FALSE,
     burst |-> 0, superseded |-> "", ranWith |-> "", runs |-> 0, ranAfter |-> 0]

LegacyUnbound == [show |-> FALSE, visibleFor |-> 0]

\* an empty, untouched form under the standard serialisation of colours
NoForm ==
    [email |-> << >>, phone |-> << >>, country |-> "+91", emailBorder |-> "",
     phoneBorder |-> "", emailValidity |-> "", phoneValidity |-> "",
     submitText |-> "Send", submitDisabled |-> FALSE, outcome |-> "none",
     serialises |-> "rgb"]

NoNavbar ==
    [navbarHeight |-> 0, lastScrollTop |-> 0, transform |-> "", scrollTop |-> 0]

NoContact ==
    [submitText |-> "Send", submitDisabled |-> FALSE, fields |-> "empty",
     inFlight |-> << >>, notifications |-> << >>, settled |-> "none"]

FormsClosed ==
    /\ form = NoForm
    /\ navbar = NoNavbar
    /\ contact = NoContact

PageClosed ==
    /\ timers = NoTimers
    /\ popup = PopupUnbound
    /\ nav = NavInactive
    /\ deb = NoDebounce
    /\ legacy = LegacyUnbound
    /\ FormsClosed

Absent == [exists |-> FALSE, text |-> << >>]
\* a backing file cut off after its first object was opened
CorruptText == << Tok("["), Tok("{") >>

Pending == [kind |-> "pending", val |-> << >>, err |-> ""]
\* a resolved promise carrying the array or the object val
Returned(val) == [kind |-> "value", val |-> val, err |-> ""]
\* a promise resolved with undefined
ReturnedUndefined == [kind |-> "undefined", val |-> << >>, err |-> ""]
\* a rejected promise
Raised(err) == [kind |-> "error", val |-> << >>, err |-> err]
\* a resolved promise carrying null or an object that is not an array
ReturnedNonArray(shape) == [kind |-> "nonarray", val |-> << >>, err |-> shape]

NoPrev ==
    [op |-> "none", props |-> << >>, result |-> Pending, saw |-> "nothing",
     mkdirs |-> 0]

Init ==
    /\ dirExists \in BOOLEAN
    /\ dirCreatable \in BOOLEAN
    /\ dirExists => dirCreatable
    /\ file \in (IF dirExists
                 THEN {Absent, [exists |-> TRUE, text |-> CorruptText]}
                 ELSE {Absent})
    /\ clock = 0
    /\ pc = [c \in AllCallers |-> "idle"]
    /\ op = [c \in AllCallers |-> "none"]
    /\ arg = [c \in AllCallers |-> ""]
    /\ props = [c \in AllCallers |-> << >>]
    /\ buf = [c \in AllCallers |-> << >>]
    /\ fd = [c \in AllCallers |-> FALSE]
    /\ result = [c \in AllCallers |-> Pending]
    /\ readSaw = [c \in AllCallers |-> "nothing"]
    /\ mkdirs = [c \in AllCallers |-> 0]
    /\ rmw = [c \in AllCallers |-> FALSE]
    /\ prev = NoPrev
    /\ disturbed = FALSE
    /\ disturbedPrev = FALSE
    /\ PageClosed

(***************************************************************************)
(* Helpers of the actions.                                                 *)
(***************************************************************************)
\* Party p changed the backing file.
Touched(p) ==
    /\ disturbed' = (disturbed \/ (p # Observed /\ pc[Observed] # "idle"))
    /\ disturbedPrev' = (disturbedPrev \/ (p # Observed /\ pc[Observed] # "idle"))

\* FindFrom with the predicate p => p.id === id.
RECURSIVE FindFromById(_, _, _)
FindFromById(properties, id, i) ==
    IF i > Len(properties) THEN << >>
    ELSE IF Get(properties[i], "id") = Str(id) THEN << properties[i] >>
    ELSE FindFromById(properties, id, i + 1)

\* properties.find(p => p._id === id): the first match, as a sequence of
\* at most one object (empty: find returned undefined).
RECURSIVE FindFrom(_, _, _)
FindFrom(properties, id, i) ==
    IF i > Len(properties) THEN << >>
    ELSE IF Get(properties[i], "_id") = Str(id) THEN << properties[i] >>
    ELSE FindFrom(properties, id, i + 1)

Find(properties, id) == FindFrom(properties, id, 1)

\* Outcome with the catch block ending in `return await saveProperties(...)`,
\* which resolves with undefined.
OutcomeOfSave(c, properties) ==
    IF readSaw[c] # "nothing" THEN ReturnedUndefined
    ELSE IF op[c] = "getById"
    THEN LET found == Find(properties, arg[c])
         IN  IF found = << >> THEN ReturnedUndefined ELSE Returned(found)
    ELSE Returned(properties)

\* Outcome with getPropertyById throwing when find returns undefined.
OutcomeRaisesNotFound(c, properties) ==
    IF op[c] = "getById"
    THEN LET found == Find(properties, arg[c])
         IN  IF found = << >> THEN Raised("notfound") ELSE Returned(found)
    ELSE Returned(properties)

\* What the running operation of c resolves with once getProperties has
\* the array `properties` in hand.
Outcome(c, properties) ==
    IF op[c] = "getById"
    THEN LET found == Find(properties, arg[c])
         IN  IF found = << >> THEN ReturnedUndefined ELSE Returned(found)
    ELSE Returned(properties)

\* WriteAt0 with the data written at the end of the file (flag 'a').
WriteAppend(data, old) == old \o data

\* Bytes written at offset 0 of a file holding `old`: what lies beyond the
\* written length stays.
WriteAt0(data, old) == data \o SubSeq(old, Len(data) + 1, Len(old))

\* A caller begins an operation; Observed's previous one becomes `prev`.
Begin(c, o, id, properties, modified, at) ==
    /\ IF c = Observed
       THEN /\ prev' = [op |-> op[c], props |-> props[c], result |-> result[c],
                        saw |-> readSaw[c], mkdirs |-> mkdirs[c]]
            /\ disturbedPrev' = disturbed
            /\ disturbed' = FALSE
       ELSE UNCHANGED << prev, disturbed, disturbedPrev >>
    /\ rmw' = [rmw EXCEPT ![c] = modified]
    /\ op' = [op EXCEPT ![c] = o]
    /\ arg' = [arg EXCEPT ![c] = id]
    /\ props' = [props EXCEPT ![c] = properties]
    /\ pc' = [pc EXCEPT ![c] = at]
    /\ result' = [result EXCEPT ![c] = Pending]
    /\ readSaw' = [readSaw EXCEPT ![c] = "nothing"]
    /\ mkdirs' = [mkdirs EXCEPT ![c] = 0]
    /\ buf' = [buf EXCEPT ![c] = << >>]
    /\ UNCHANGED << dirExists, dirCreatable, page, file, clock, fd >>

(***************************************************************************)
(* Calls.                                                                  *)
(***************************************************************************)
\* getProperties(): suspended at fs.readFile
CallGetProperties(c) ==
    /\ pc[c] \in {"idle", "done"}
    /\ Begin(c, "listAll", "", << >>, FALSE, "readFile")

\* getPropertyById(id): suspended at getProperties' fs.readFile
CallGetPropertyById(c) ==
    /\ pc[c] \in {"idle", "done"}
    /\ \E id \in IdInputs : Begin(c, "getById", id, << >>, FALSE, "readFile")

\* ensureDataDir(): suspended at fs.access
CallEnsureDataDir(c) ==
    /\ pc[c] \in {"idle", "done"}
    /\ Begin(c, "ensureDataDir", "", << >>, FALSE, "access")

\* saveProperties(properties): suspended at ensureDataDir's fs.access
CallSaveProperties(c) ==
    /\ pc[c] \in {"idle", "done"}
    /\ \E properties \in SaveInputs :
          Begin(c, "saveAll", "", properties, FALSE, "access")

\* A read-modify-write cycle: the collection getProperties returned, with
\* the caller's own record pushed onto it, is handed to saveProperties.
CallSaveModified(c) ==
    /\ op[c] = "listAll"
    /\ result[c].kind = "value"
    /\ pc[c] = "done"
    /\ Find(result[c].val, Extra(c)["_id"].str) = << >>
    /\ Begin(c, "saveAll", "", Append(result[c].val, Extra(c)), TRUE, "access")

(***************************************************************************)
(* getProperties, lines 29-90.                                             *)
(***************************************************************************)
\* fs.readFile succeeds and JSON.parse returns a value that is not an
\* array: getProperties returns it as it is, and getPropertyById evaluates
\* properties.find on it, which throws a TypeError (null has no
\* properties; an object has no find).
ReadParsedNonArray(c) ==
    /\ pc[c] = "readFile"
    /\ file.exists
    /\ ShapeOf(file.text) \in {"null", "object"}
    /\ result' = [result EXCEPT ![c] =
                    IF op[c] = "getById" THEN Raised("TypeError")
                    ELSE ReturnedNonArray(ShapeOf(file.text))]
    /\ readSaw' = [readSaw EXCEPT ![c] = "parsed"]
    /\ pc' = [pc EXCEPT ![c] = "done"]
    /\ UNCHANGED << dirExists, dirCreatable, page, file, clock, op, arg, props,
                    buf, fd, mkdirs, rmw, prev, disturbed, disturbedPrev >>

\* ReadParsed with the parsed array written back before it is returned:
\* getProperties calls saveProperties on every path.
ReadParsedSavesBack(c) ==
    /\ pc[c] = "readFile"
    /\ file.exists
    /\ Parse(file.text).ok
    /\ props' = [props EXCEPT ![c] = Parse(file.text).val]
    /\ readSaw' = [readSaw EXCEPT ![c] = "parsed"]
    /\ pc' = [pc EXCEPT ![c] = "access"]
    /\ UNCHANGED << dirExists, dirCreatable, page, file, clock, op, arg, result,
                    buf, fd, mkdirs, rmw, prev, disturbed, disturbedPrev >>

\* ReadParsed with the parsed array kept in a module-level variable and
\* handed out again: a caller gets the array another caller holds.
ReadParsedShared(c) ==
    /\ pc[c] = "readFile"
    /\ file.exists
    /\ Parse(file.text).ok
    /\ IF \E d \in AllCallers \ {c} : op[d] = "listAll" /\ result[d].kind = "value"
       THEN \E d \in AllCallers \ {c} :
               /\ op[d] = "listAll" /\ result[d].kind = "value"
               /\ result' = [result EXCEPT ![c] = Outcome(c, result[d].val)]
       ELSE result' = [result EXCEPT ![c] = Outcome(c, Parse(file.text).val)]
    /\ readSaw' = [readSaw EXCEPT ![c] = "parsed"]
    /\ pc' = [pc EXCEPT ![c] = "done"]
    /\ UNCHANGED << dirExists, dirCreatable, page, file, clock, op, arg, props,
                    buf, fd, mkdirs, rmw, prev, disturbed, disturbedPrev >>

\* fs.readFile and JSON.parse succeed: the parsed array is returned.
ReadParsed(c) ==
    /\ pc[c] = "readFile"
    /\ file.exists
    /\ LET parsed == Parse(file.text)
       IN  /\ parsed.ok
           /\ result' = [result EXCEPT ![c] = Outcome(c, parsed.val)]
    /\ readSaw' = [readSaw EXCEPT ![c] = "parsed"]
    /\ pc' = [pc EXCEPT ![c] = "done"]
    /\ UNCHANGED << dirExists, dirCreatable, page, file, clock, op, arg, props,
                    buf, fd, mkdirs, rmw, prev, disturbed, disturbedPrev >>

\* ReadFailed with a catch block that returns defaultProperties without
\* calling saveProperties.
ReadFailedNoSave(c) ==
    /\ pc[c] = "readFile"
    /\ ~(file.exists /\ ShapeOf(file.text) # "invalid")
    /\ readSaw' = [readSaw EXCEPT ![c] = IF file.exists THEN "corrupt" ELSE "absent"]
    /\ \E ts \in ClockReadings(clock) :
          /\ props' = [props EXCEPT ![c] = DefaultProperties(ts)]
          /\ result' = [result EXCEPT ![c] = Returned(DefaultProperties(ts))]
          /\ clock' = ts[6]
    /\ pc' = [pc EXCEPT ![c] = "done"]
    /\ UNCHANGED << dirExists, dirCreatable, page, file, op, arg, buf, fd,
                    mkdirs, rmw, prev, disturbed, disturbedPrev >>

\* ReadFailed with a catch block that seeds only when the file is missing
\* and rethrows when its content does not parse.
ReadFailedRaisesCorrupt(c) ==
    /\ pc[c] = "readFile"
    /\ ~(file.exists /\ ShapeOf(file.text) # "invalid")
    /\ readSaw' = [readSaw EXCEPT ![c] = IF file.exists THEN "corrupt" ELSE "absent"]
    /\ IF file.exists
       THEN /\ result' = [result EXCEPT ![c] = Raised("parse")]
            /\ pc' = [pc EXCEPT ![c] = "done"]
            /\ UNCHANGED << props, clock >>
       ELSE /\ \E ts \in ClockReadings(clock) :
                  /\ props' = [props EXCEPT ![c] = DefaultProperties(ts)]
                  /\ clock' = ts[6]
            /\ pc' = [pc EXCEPT ![c] = "access"]
            /\ UNCHANGED result
    /\ UNCHANGED << dirExists, dirCreatable, page, file, op, arg, buf, fd,
                    mkdirs, rmw, prev, disturbed, disturbedPrev >>

\* ReadFailed with the default records built once, when the module is
\* loaded, so that every seeding carries the time stamps of the load.
ReadFailedStampedAtLoad(c) ==
    /\ pc[c] = "readFile"
    /\ ~(file.exists /\ ShapeOf(file.text) # "invalid")
    /\ readSaw' = [readSaw EXCEPT ![c] = IF file.exists THEN "corrupt" ELSE "absent"]
    /\ props' = [props EXCEPT ![c] = DefaultProperties([i \in 1..6 |-> 0])]
    /\ \E t \in clock..MaxClock : clock' = t
    /\ pc' = [pc EXCEPT ![c] = "access"]
    /\ UNCHANGED << dirExists, dirCreatable, page, file, op, arg, buf, fd,
                    result, mkdirs, rmw, prev, disturbed, disturbedPrev >>

\* fs.readFile rejects (no file) or JSON.parse throws: the catch block
\* builds defaultProperties and calls saveProperties, which suspends at
\* ensureDataDir's fs.access.
ReadFailed(c) ==
    /\ pc[c] = "readFile"
    /\ ~(file.exists /\ ShapeOf(file.text) # "invalid")
    /\ readSaw' = [readSaw EXCEPT ![c] = IF file.exists THEN "corrupt" ELSE "absent"]
    /\ \E ts \in ClockReadings(clock) :
          /\ props' = [props EXCEPT ![c] = DefaultProperties(ts)]
          /\ clock' = ts[6]
    /\ pc' = [pc EXCEPT ![c] = "access"]
    /\ UNCHANGED << dirExists, dirCreatable, page, file, op, arg, buf, fd,
                    result, mkdirs, rmw, prev, disturbed, disturbedPrev >>

(***************************************************************************)
(* ensureDataDir, lines 20-26, and saveProperties, lines 92-95.            *)
(***************************************************************************)
\* ensureDataDir has returned to its caller: a direct call resolves with
\* undefined; saveProperties evaluates JSON.stringify and suspends at
\* fs.writeFile.
EnsureDataDirReturns(c) ==
    IF op[c] = "ensureDataDir"
    THEN /\ result' = [result EXCEPT ![c] = ReturnedUndefined]
         /\ pc' = [pc EXCEPT ![c] = "done"]
         /\ UNCHANGED buf
    ELSE /\ buf' = [buf EXCEPT ![c] = Stringify(props[c])]
         /\ pc' = [pc EXCEPT ![c] = "open"]
         /\ UNCHANGED result

\* fs.access(DATA_DIR) resolves: ensureDataDir returns.
AccessOk(c) ==
    /\ pc[c] = "access"
    /\ dirExists
    /\ EnsureDataDirReturns(c)
    /\ UNCHANGED << dirExists, dirCreatable, page, file, clock, op, arg, props,
                    fd, readSaw, mkdirs, rmw, prev, disturbed, disturbedPrev >>

\* fs.access rejects: the catch block calls fs.mkdir.
AccessFailed(c) ==
    /\ pc[c] = "access"
    /\ ~dirExists
    /\ pc' = [pc EXCEPT ![c] = "mkdir"]
    /\ UNCHANGED << dirExists, dirCreatable, page, file, clock, op, arg, props,
                    buf, fd, result, readSaw, mkdirs, rmw, prev, disturbed, disturbedPrev >>

\* MkdirOk with fs.mkdir called without {recursive: true}: it rejects with
\* EEXIST when the directory is there already.
MkdirNotRecursive(c) ==
    /\ pc[c] = "mkdir"
    /\ dirExists \/ dirCreatable
    /\ mkdirs' = [mkdirs EXCEPT ![c] = @ + 1]
    /\ IF dirExists
       THEN /\ result' = [result EXCEPT ![c] = Raised("EEXIST")]
            /\ pc' = [pc EXCEPT ![c] = "done"]
            /\ UNCHANGED << dirExists, buf >>
       ELSE /\ dirExists' = TRUE
            /\ EnsureDataDirReturns(c)
    /\ UNCHANGED << dirCreatable, page, file, clock, op, arg, props, fd,
                    readSaw, rmw, prev, disturbed, disturbedPrev >>

\* fs.mkdir(DATA_DIR, {recursive: true}) resolves, also when the directory
\* is there already: ensureDataDir returns.
MkdirOk(c) ==
    /\ pc[c] = "mkdir"
    /\ dirExists \/ dirCreatable
    /\ dirExists' = TRUE
    /\ mkdirs' = [mkdirs EXCEPT ![c] = @ + 1]
    /\ EnsureDataDirReturns(c)
    /\ UNCHANGED << dirCreatable, page, file, clock, op, arg, props, fd,
                    readSaw, rmw, prev, disturbed, disturbedPrev >>

\* MkdirFailed with the rejection of fs.mkdir swallowed: ensureDataDir
\* returns and saveProperties goes on to fs.writeFile.
MkdirFailedIgnored(c) ==
    /\ pc[c] = "mkdir"
    /\ ~dirExists /\ ~dirCreatable
    /\ mkdirs' = [mkdirs EXCEPT ![c] = @ + 1]
    /\ buf' = [buf EXCEPT ![c] = Stringify(props[c])]
    /\ pc' = [pc EXCEPT ![c] = "open"]
    /\ UNCHANGED << dirExists, dirCreatable, page, file, clock, op, arg, props,
                    fd, result, readSaw, rmw, prev, disturbed, disturbedPrev >>

\* fs.mkdir rejects: nothing catches it in ensureDataDir, saveProperties,
\* getProperties' catch block or getPropertyById.
MkdirFailed(c) ==
    /\ pc[c] = "mkdir"
    /\ ~dirExists /\ ~dirCreatable
    /\ mkdirs' = [mkdirs EXCEPT ![c] = @ + 1]
    /\ result' = [result EXCEPT ![c] = Raised("mkdir")]
    /\ pc' = [pc EXCEPT ![c] = "done"]
    /\ UNCHANGED << dirExists, dirCreatable, page, file, clock, op, arg, props,
                    buf, fd, readSaw, rmw, prev, disturbed, disturbedPrev >>

\* WriteFileOpen with the file opened without truncation (flag 'r+').
WriteFileOpenNoTruncate(c) ==
    /\ pc[c] = "open"
    /\ file' = [exists |-> TRUE, text |-> file.text]
    /\ fd' = [fd EXCEPT ![c] = TRUE]
    /\ Touched(c)
    /\ pc' = [pc EXCEPT ![c] = "write"]
    /\ UNCHANGED << dirExists, dirCreatable, page, clock, op, arg, props, buf,
                    result, readSaw, mkdirs, rmw, prev >>

\* WriteFileOpen with the old file unlinked first, the new one being
\* created by the write that follows.
WriteFileOpenUnlinks(c) ==
    /\ pc[c] = "open"
    /\ file' = Absent
    /\ fd' = [fd EXCEPT ![c] = TRUE]
    /\ Touched(c)
    /\ pc' = [pc EXCEPT ![c] = "write"]
    /\ UNCHANGED << dirExists, dirCreatable, page, clock, op, arg, props, buf,
                    result, readSaw, mkdirs, rmw, prev >>

\* fs.writeFile opens PROPERTIES_FILE with flag 'w': created or truncated.
WriteFileOpen(c) ==
    /\ pc[c] = "open"
    /\ file' = [exists |-> TRUE, text |-> << >>]
    /\ fd' = [fd EXCEPT ![c] = TRUE]
    /\ Touched(c)
    /\ pc' = [pc EXCEPT ![c] = "write"]
    /\ UNCHANGED << dirExists, dirCreatable, page, clock, op, arg, props, buf,
                    result, readSaw, mkdirs, rmw, prev >>

\* fs.writeFile writes its data from offset 0 and closes; saveProperties
\* returns, and so does the getProperties that called it.  A descriptor
\* whose file was unlinked writes to no file of the directory.
WriteFileWrite(c) ==
    /\ pc[c] = "write"
    /\ IF fd[c]
       THEN /\ file' = [exists |-> TRUE, text |-> WriteAt0(buf[c], file.text)]
            /\ Touched(c)
       ELSE UNCHANGED << file, disturbed, disturbedPrev >>
    /\ fd' = [fd EXCEPT ![c] = FALSE]
    /\ result' = [result EXCEPT ![c] =
                    IF op[c] = "saveAll" THEN ReturnedUndefined
                    ELSE Outcome(c, props[c])]
    /\ pc' = [pc EXCEPT ![c] = "done"]
    /\ UNCHANGED << dirExists, dirCreatable, page, clock, op, arg, props, buf,
                    readSaw, mkdirs, rmw, prev >>

(***************************************************************************)
(* The environment: the backing file is deleted from outside the store.    *)
(***************************************************************************)
ExternalDelete ==
    /\ file.exists
    /\ file' = Absent
    /\ fd' = [c \in AllCallers |-> FALSE]
    /\ Touched("env")
    /\ UNCHANGED << dirExists, dirCreatable, page, clock, pc, op, arg, props, buf,
                    result, readSaw, mkdirs, rmw, prev >>

(***************************************************************************)
(* A caller changes what it was handed: it assigns to the name of the      *)
(* first record of the array getProperties returned, or of the record      *)
(* getPropertyById returned.  The array and its records were built by      *)
(* JSON.parse, or by the object literal of the catch block, in the call    *)
(* that returned them, and nothing else holds a reference to them.         *)
(***************************************************************************)
Mark(c) == Str("Mutated by " \o c)

MutateResult(c) ==
    /\ pc[c] = "done"
    /\ op[c] \in {"listAll", "getById"}
    /\ result[c].kind = "value"
    /\ Len(result[c].val) >= 1
    /\ result[c].val[1]["name"] # Mark(c)
    /\ result' = [result EXCEPT ![c].val[1]["name"] = Mark(c)]
    /\ UNCHANGED << dirExists, dirCreatable, page, file, clock, pc, op, arg, props,
                    buf, fd, readSaw, mkdirs, rmw, prev, disturbed, disturbedPrev >>

\* The steps of an operation under way.
Step(c) ==
    \/ ReadParsed(c)
    \/ ReadFailed(c)
    \/ AccessOk(c)
    \/ AccessFailed(c)
    \/ MkdirOk(c)
    \/ MkdirFailed(c)
    \/ WriteFileOpen(c)
    \/ WriteFileWrite(c)

\* Callers whose reads and saves of the collection overlap.
Next ==
    \E c \in Callers :
        \/ CallGetProperties(c)
        \/ CallSaveProperties(c)
        \/ Step(c)

Spec == Init /\ [][Next]_vars

\* One caller running one operation after another, over a backing file
\* that may be deleted from outside.
NextSeq ==
    \/ CallGetProperties(Observed)
    \/ CallGetPropertyById(Observed)
    \/ CallSaveProperties(Observed)
    \/ CallSaveModified(Observed)
    \/ Step(Observed)
    \/ ExternalDelete

SpecSeq == Init /\ [][NextSeq]_vars

\* Callers that each read the collection, add a record and save the result.
NextRmw ==
    \E c \in Callers :
        \/ CallGetProperties(c)
        \/ CallSaveModified(c)
        \/ Step(c)

SpecRmw == Init /\ [][NextRmw]_vars

\* The directory bootstrap on its own: a caller that runs it again and
\* again, and callers whose runs overlap it and one another.
NextBoot ==
    \E c \in AllCallers :
        \/ CallEnsureDataDir(c)
        \/ AccessOk(c)
        \/ AccessFailed(c)
        \/ MkdirOk(c)
        \/ MkdirFailed(c)

SpecBoot == Init /\ [][NextBoot]_vars

\* A caller that reads the collection and changes what it was handed,
\* without saving it, and a caller that reads the collection.
NextAlias ==
    \/ CallGetProperties("c1")
    \/ CallGetPropertyById("c1")
    \/ MutateResult("c1")
    \/ Step("c1")
    \/ CallGetProperties("c2")
    \/ Step("c2")

SpecAlias == Init /\ [][NextAlias]_vars

\* A caller that reads the collection again and again while another
\* caller saves collections.
NextRead ==
    \/ CallGetProperties(Observed)
    \/ Step(Observed)
    \/ CallSaveProperties("c1")
    \/ Step("c1")

SpecRead == Init /\ [][NextRead]_vars

\* The store started over a backing file whose content is JSON of another
\* shape than an array: null, or one object.
InitNonArray ==
    /\ dirExists = TRUE
    /\ dirCreatable = TRUE
    /\ file \in { [exists |-> TRUE, text |-> NullText],
                  [exists |-> TRUE, text |-> StringifyObject(Loft)] }
    /\ clock = 0
    /\ pc = [c \in AllCallers |-> "idle"]
    /\ op = [c \in AllCallers |-> "none"]
    /\ arg = [c \in AllCallers |-> ""]
    /\ props = [c \in AllCallers |-> << >>]
    /\ buf = [c \in AllCallers |-> << >>]
    /\ fd = [c \in AllCallers |-> FALSE]
    /\ result = [c \in AllCallers |-> Pending]
    /\ readSaw = [c \in AllCallers |-> "nothing"]
    /\ mkdirs = [c \in AllCallers |-> 0]
    /\ rmw = [c \in AllCallers |-> FALSE]
    /\ prev = NoPrev
    /\ disturbed = FALSE
    /\ disturbedPrev = FALSE
    /\ PageClosed

\* One caller running one operation after another over such a file,
\* which may be deleted from outside.
NextNonArray ==
    \/ CallGetProperties(Observed)
    \/ CallGetPropertyById(Observed)
    \/ CallSaveProperties(Observed)
    \/ ReadParsedNonArray(Observed)
    \/ ReadParsed(Observed)
    \/ ReadFailed(Observed)
    \/ AccessOk(Observed)
    \/ WriteFileOpen(Observed)
    \/ WriteFileWrite(Observed)
    \/ ExternalDelete

SpecNonArray == InitNonArray /\ [][NextNonArray]_vars

(***************************************************************************)
(* Properties of the store.                                                *)
(***************************************************************************)
\* The identifier of every object of an array, in order.
Ids(properties) == [i \in 1..Len(properties) |-> Get(properties[i], "_id")]

\* Caller c is through getProperties, which found no backing file, and
\* the directory bootstrap of its seeding write did not fail.
SeededFromAbsent(c) ==
    /\ pc[c] = "done"
    /\ op[c] = "listAll"
    /\ readSaw[c] = "absent"
    /\ result[c].kind # "error"

WellFormed(properties) ==
    \A i \in 1..Len(properties) :
        \A key \in DOMAIN properties[i] : properties[i][key].type # "undefined"

\* No two records carry the same identifier.
UniqueIds(properties) ==
    \A i, j \in 1..Len(properties) :
        i # j => Ids(properties)[i] # Ids(properties)[j]

\* Three records with the seeded identifiers.
IsSeed(properties) ==
    Ids(properties) = << Str("prop_1"), Str("prop_2"), Str("prop_3") >>

\* The backing file holds exactly the collection `properties`.
FileHolds(properties) ==
    /\ file.exists
    /\ Parse(file.text) = [ok |-> TRUE, val |-> properties]

\* Observed has completed operation o, straight after its saveProperties
\* returned, and nobody else changed the file since that save began.
AfterSave(o) ==
    /\ pc[Observed] = "done"
    /\ op[Observed] = o
    /\ prev.op = "saveAll"
    /\ prev.result = ReturnedUndefined
    /\ ~disturbedPrev

\* C2: saveProperties(R) followed by getProperties, with no other change
\* of the file since the save began, returns R, same records in the same
\* order, for every well-formed R with unique identifiers.
C2_RoundTrip ==
    (AfterSave("listAll") /\ WellFormed(prev.props) /\ UniqueIds(prev.props))
        => result[Observed] = Returned(prev.props)

\* A collection of two records came back as saved.
C2_Witness ==
    /\ AfterSave("listAll")
    /\ prev.props = << Loft, Cabin >>
    /\ result[Observed] = Returned(<< Loft, Cabin >>)

\* C3: after saveProperties(R), getPropertyById(r._id) returns r for every
\* record r of R, and getPropertyById(id) finds nothing for every id that
\* no record of R carries.
C3_LookupCorrect ==
    (AfterSave("getById") /\ WellFormed(prev.props))
        => LET R == prev.props
               id == Str(arg[Observed])
           IN  /\ \A i \in 1..Len(R) :
                     Ids(R)[i] = id => result[Observed] = Returned(<< R[i] >>)
               /\ (\A i \in 1..Len(R) : Ids(R)[i] # id)
                     => result[Observed] = ReturnedUndefined

\* C4: no two records returned by getProperties share an identifier.
C4_UniqueIds ==
    \A c \in AllCallers :
        (pc[c] = "done" /\ op[c] = "listAll" /\ result[c].kind = "value")
            => UniqueIds(result[c].val)

\* Observed is through a getProperties that found no backing file.
SeedCallDone ==
    /\ pc[Observed] = "done"
    /\ op[Observed] = "listAll"
    /\ readSaw[Observed] = "absent"

\* Observed is through a getProperties that directly followed a
\* getProperties of its own that found no backing file, and nobody else
\* changed the file since that first call began.
SecondCallDone ==
    /\ pc[Observed] = "done"
    /\ op[Observed] = "listAll"
    /\ prev.op = "listAll"
    /\ prev.saw = "absent"
    /\ ~disturbedPrev

\* C5 as claimed: getProperties never fails when the backing file is
\* missing; it returns the three default records and has persisted them
\* when it returns, and the next getProperties returns the same records,
\* time stamps included.
C5_SeedNeverFails ==
    /\ SeedCallDone =>
          /\ result[Observed].kind = "value"
          /\ IsSeed(result[Observed].val)
          /\ ~disturbed => FileHolds(result[Observed].val)
    /\ SecondCallDone => result[Observed] = prev.result

\* C5 as amended: the same, provided the backing directory exists or can
\* be created.
C5_SeedPersists ==
    /\ (SeedCallDone /\ (dirExists \/ dirCreatable)) =>
          /\ result[Observed].kind = "value"
          /\ IsSeed(result[Observed].val)
          /\ ~disturbed => FileHolds(result[Observed].val)
    /\ (SecondCallDone /\ prev.result.kind = "value") =>
          /\ readSaw[Observed] = "parsed"
          /\ result[Observed] = prev.result

\* The second of two getProperties calls returned what the first seeded.
C5_Witness ==
    /\ SecondCallDone
    /\ prev.result.kind = "value"
    /\ IsSeed(result[Observed].val)
    /\ result[Observed] = prev.result

\* The collection a read-modify-write cycle read.
Base(c) == SubSeq(props[c], 1, Len(props[c]) - 1)

\* Caller c is through the save of a read-modify-write cycle.
RmwDone(c) == pc[c] = "done" /\ op[c] = "saveAll" /\ rmw[c]

\* C6: two callers that read the same collection and each saved it with
\* its own record added are both told the save succeeded, and the file
\* holds the collection of one of them alone: the other's record is lost.
C6_LostUpdate ==
    \A c, d \in Callers :
        (c # d /\ RmwDone(c) /\ RmwDone(d) /\ Base(c) = Base(d))
            => /\ result[c] = ReturnedUndefined
               /\ result[d] = ReturnedUndefined
               /\ file.text \in { buf[c], buf[d] }

\* Both cycles are through, from the same collection; the file holds the
\* second caller's collection, in which the first caller's record is missing.
C6_Witness ==
    /\ RmwDone("c1") /\ RmwDone("c2")
    /\ Base("c1") = Base("c2")
    /\ result["c1"] = ReturnedUndefined
    /\ result["c2"] = ReturnedUndefined
    /\ FileHolds(props["c2"])
    /\ Find(Parse(file.text).val, "prop_c1") = << >>
    /\ Find(props["c1"], "prop_c1") # << >>

\* C7: once two overlapping saveProperties calls have both returned, the
\* file holds the text of one of them, whole.
C7_LastWriterWins ==
    \A c, d \in Callers :
        (/\ c # d
         /\ pc[c] = "done" /\ op[c] = "saveAll" /\ result[c] = ReturnedUndefined
         /\ pc[d] = "done" /\ op[d] = "saveAll" /\ result[d] = ReturnedUndefined)
            => file.text \in { Stringify(props[c]), Stringify(props[d]) }

\* C8: a getProperties that met a backing file that does not parse
\* raises nothing; it returns the three default records and, when nobody
\* else changed the file meanwhile, the file then holds them in place of
\* the corrupt text.
C8_ReseedOnCorrupt ==
    (pc[Observed] = "done" /\ op[Observed] = "listAll"
        /\ readSaw[Observed] = "corrupt")
        => /\ result[Observed].kind = "value"
           /\ IsSeed(result[Observed].val)
           /\ Len(result[Observed].val) = 3
           /\ ~disturbed => FileHolds(result[Observed].val)

\* A corrupt file was met and replaced by the defaults.
C8_Witness ==
    /\ pc[Observed] = "done" /\ op[Observed] = "listAll"
    /\ readSaw[Observed] = "corrupt"
    /\ IsSeed(result[Observed].val)
    /\ FileHolds(result[Observed].val)

\* Observed is through a getPropertyById.
LookupDone == pc[Observed] = "done" /\ op[Observed] = "getById"

\* No record of the collection the file holds carries the requested id.
NoStoredMatch ==
    /\ ~disturbed
    /\ file.exists
    /\ Parse(file.text).ok
    /\ Find(Parse(file.text).val, arg[Observed]) = << >>

Saving(c) == op[c] = "saveAll" \/ readSaw[c] \in {"absent", "corrupt"}

\* C10: when the backing directory cannot be created, every operation that
\* saves fails with the error of fs.mkdir, after one fs.mkdir call, without
\* calling fs.writeFile; the directory and the file stay absent.
C10_MkdirFailureSurfaces ==
    /\ \A c \in AllCallers :
          result[c].kind = "error" =>
              /\ result[c] = Raised("mkdir")
              /\ pc[c] = "done"
              /\ mkdirs[c] = 1
              /\ buf[c] = << >>
    /\ (~dirExists /\ ~dirCreatable) =>
          /\ file = Absent
          /\ \A c \in AllCallers :
                /\ pc[c] \notin {"open", "write"}
                /\ mkdirs[c] <= 1
                /\ (pc[c] = "done" /\ Saving(c)) => result[c] = Raised("mkdir")

\* A getProperties and a saveProperties have both failed at fs.mkdir.
C10_Witness ==
    /\ op["c1"] = "listAll" /\ result["c1"] = Raised("mkdir")
    /\ op["c2"] = "saveAll" /\ result["c2"] = Raised("mkdir")

\* Caller c is through a direct call of ensureDataDir.
BootDone(c) == pc[c] = "done" /\ op[c] = "ensureDataDir"

\* C11 as claimed: ensureDataDir never fails and the directory is present
\* after each call, the first of two calls in a row included.
C11_BootstrapNeverFails ==
    \A c \in AllCallers :
        BootDone(c) => (result[c] = ReturnedUndefined /\ dirExists)

\* C11 as amended: when the directory exists or can be created,
\* ensureDataDir does not fail and the directory is present after it, also
\* for a caller whose fs.mkdir finds the directory another caller made
\* since its fs.access; and the call that follows a call that succeeded
\* succeeds too.  When the directory cannot be created the call fails with
\* the error of fs.mkdir.
C11_BootstrapIdempotent ==
    /\ \A c \in AllCallers :
          BootDone(c) =>
              IF dirExists \/ dirCreatable
              THEN result[c] = ReturnedUndefined /\ dirExists
              ELSE result[c] = Raised("mkdir")
    /\ (BootDone(Observed) /\ prev.op = "ensureDataDir"
           /\ prev.result = ReturnedUndefined)
          => (result[Observed] = ReturnedUndefined /\ dirExists)

\* Two callers both found no directory and both called fs.mkdir, so one of
\* them met the directory the other had just made; both succeeded, and the
\* first caller's next call succeeded without fs.mkdir.
C11_Witness ==
    /\ BootDone(Observed) /\ BootDone("c1")
    /\ prev.op = "ensureDataDir"
    /\ prev.result = ReturnedUndefined
    /\ prev.mkdirs = 1
    /\ mkdirs["c1"] = 1
    /\ result["c1"] = ReturnedUndefined
    /\ result[Observed] = ReturnedUndefined
    /\ mkdirs[Observed] = 0

\* C12: a caller is at fs.writeFile only once ensureDataDir has returned,
\* with the directory present; and at the step in which the fs.writeFile
\* of saveProperties(R) completes, the file holds the text of R and nothing
\* of what it held before.
C12_BootstrapThenReplace ==
    [][ \A c \in Callers :
          /\ pc[c] \in {"open", "write"} => dirExists
          /\ (pc[c] = "write" /\ pc'[c] = "done" /\ op[c] = "saveAll")
                => (file'.exists /\ file'.text = Stringify(props[c])) ]_vars

\* No operation is under way.
Quiescent == \A c \in Callers : pc[c] \in {"idle", "done"}

\* The operation of c has returned after a save of its own or of the
\* getProperties it ran.
Saved(c) == pc[c] = "done" /\ Saving(c) /\ result[c].kind # "error"

\* C13: an operation that failed never reached fs.writeFile, so the file
\* is as it was before the call; and once every operation under way has
\* returned, one of them after saving, the file holds a complete
\* collection, which parses.
C13_AllOrNothing ==
    /\ \A c \in Callers :
          result[c].kind = "error" => (buf[c] = << >> /\ ~fd[c] /\ file = Absent)
    /\ (Quiescent /\ \E c \in Callers : Saved(c)) =>
          (file.exists /\ Parse(file.text).ok)

\* Observed is through an operation whose getProperties seeded, and it
\* returned a value.
SeedReturned ==
    /\ pc[Observed] = "done"
    /\ readSaw[Observed] \in {"absent", "corrupt"}
    /\ result[Observed].kind = "value"

\* The property names of the object literals of the default records.
SeedFieldNames ==
    { "_id", "name", "price", "location", "bedrooms", "bathrooms", "sqft",
      "status", "description", "images", "featured", "dateCreated",
      "dateUpdated" }

DatesOrdered(properties) ==
    \A i \in 1..Len(properties) :
        Get(properties[i], "dateUpdated").num >= Get(properties[i], "dateCreated").num

\* C15: every record of the collection the file holds, and of every
\* collection getProperties returns, has dateUpdated >= dateCreated.
C15_UpdatedNotBeforeCreated ==
    /\ (file.exists /\ Parse(file.text).ok) => DatesOrdered(Parse(file.text).val)
    /\ (pc[Observed] = "done" /\ op[Observed] = "listAll"
           /\ result[Observed].kind = "value")
          => DatesOrdered(result[Observed].val)

\* Some record of the array carries the mark of a caller's assignment.
Marked(properties) ==
    \E i \in 1..Len(properties) :
        \E c \in AllCallers : Get(properties[i], "name") = Mark(c)

\* The text of the file carries such a mark.
FileMarked ==
    \E i \in 1..Len(file.text) : \E c \in AllCallers : file.text[i].v = Mark(c)

\* C16: what callers do to the arrays and records they were handed, short
\* of saving them, reaches neither the file nor what any getProperties or
\* getPropertyById returns afterwards: the file never carries a caller's
\* assignment, and neither does a value at the step that returns it.
C16_NoAliasing ==
    [][ /\ ~FileMarked'
        /\ \A c \in AllCallers :
              (pc[c] # "done" /\ pc'[c] = "done" /\ result'[c].kind = "value")
                  => ~Marked(result'[c].val) ]_vars

\* A caller holds the record getPropertyById handed it, with the name it
\* assigned; the file does not carry the assignment, and the other
\* caller's getProperties parsed the file and returned the collection the
\* file holds, in which the record has the name it was stored with.
C16_Witness ==
    /\ pc["c1"] = "done"
    /\ op["c1"] = "getById"
    /\ readSaw["c1"] = "parsed"
    /\ result["c1"].kind = "value"
    /\ Get(result["c1"].val[1], "name") = Mark("c1")
    /\ pc["c2"] = "done"
    /\ op["c2"] = "listAll"
    /\ readSaw["c2"] = "parsed"
    /\ FileHolds(result["c2"].val)
    /\ Find(result["c2"].val, arg["c1"])
          = << [result["c1"].val[1] EXCEPT !["name"] = Str("Modern Family Home")] >>

\* C17: a step of the store (a step in which a caller moves) never removes
\* the file, and changes it only as the fs.writeFile of a saveProperties
\* that writes the text of a whole collection, called directly or by the
\* catch block of getProperties.
C17_FileNeverRemoved ==
    [][ pc' # pc =>
          /\ file.exists => file'.exists
          /\ file' # file =>
                \E c \in AllCallers :
                    /\ pc[c] \in {"open", "write"}
                    /\ pc'[c] # pc[c]
                    /\ Saving(c)
                    /\ buf[c] = Stringify(props[c]) ]_vars

\* The file is there after a saveProperties followed by a getPropertyById
\* that read it, nobody else having changed it.
C17_Witness ==
    /\ AfterSave("getById")
    /\ readSaw[Observed] = "parsed"
    /\ ~disturbed
    /\ file.exists

\* A record without its two time stamps.
Undated(r) == [key \in DOMAIN r \ {"dateCreated", "dateUpdated"} |-> r[key]]

\* The time stamps of an array of records, in the order of the literal.
Stamps(properties) ==
    [n \in 1..(2 * Len(properties)) |->
        IF n % 2 = 1 THEN Get(properties[(n + 1) \div 2], "dateCreated").num
        ELSE Get(properties[n \div 2], "dateUpdated").num]

\* Observed is through a getProperties that seeded, straight after a
\* getProperties of its own that seeded too: the file the first one wrote
\* was deleted from outside.
SeededTwice ==
    /\ pc[Observed] = "done"
    /\ op[Observed] = "listAll"
    /\ readSaw[Observed] = "absent"
    /\ result[Observed].kind = "value"
    /\ prev.op = "listAll"
    /\ prev.saw = "absent"
    /\ prev.result.kind = "value"

\* C18: the records of the second seeding are those of the first in every
\* field except dateCreated and dateUpdated, and its time stamps are read
\* from the clock during the second seeding: they are the clock's
\* readings in order, none earlier than any of the first seeding, the
\* last being the latest reading made.
C18_ReseedSameShapeNewStamps ==
    SeededTwice =>
        LET first == prev.result.val
            second == result[Observed].val
        IN  /\ Len(second) = Len(first)
            /\ \A i \in 1..Len(second) : Undated(second[i]) = Undated(first[i])
            /\ \A n \in 1..5 : Stamps(second)[n] <= Stamps(second)[n + 1]
            /\ Stamps(first)[6] <= Stamps(second)[1]
            /\ Stamps(second)[6] = clock

\* The second seeding carries later time stamps than the first.
C18_Witness ==
    /\ SeededTwice
    /\ disturbedPrev
    /\ Stamps(prev.result.val) = << 0, 0, 0, 0, 0, 0 >>
    /\ Stamps(result[Observed].val) = << 1, 1, 1, 1, 1, 1 >>
    /\ FileHolds(result[Observed].val)

\* Caller c is through a saveProperties that returned.
SaveReturned(c) ==
    pc[c] = "done" /\ op[c] = "saveAll" /\ result[c] = ReturnedUndefined

\* Caller d runs a getProperties that seeds.
Seeding(d) == op[d] = "listAll" /\ readSaw[d] \in {"absent", "corrupt"}

\* C19: at the step in which the seeding write of a getProperties
\* completes, the file does not hold the collection of a saveProperties
\* that has returned.
C19_SeedNeverOverwritesSave ==
    [][ \A c, d \in Callers :
          (/\ c # d
           /\ SaveReturned(c)
           /\ file.exists
           /\ file.text = Stringify(props[c])
           /\ Seeding(d)
           /\ pc[d] = "write" /\ pc'[d] = "done")
              => file' = file ]_vars

\* Observed is through a getProperties that directly followed a
\* getProperties of its own that parsed the file: the file held a whole
\* collection then, and only the other caller's saveProperties calls, one
\* after another, have changed it since.
ReadOverStored ==
    /\ pc[Observed] = "done"
    /\ op[Observed] = "listAll"
    /\ prev.op = "listAll"
    /\ prev.saw = "parsed"

\* C20: such a getProperties parses the file and returns the collection
\* it returned before or a collection the other caller saved; it never
\* meets a file it cannot parse, so it never seeds.
C20_ReaderSeesWholeFile ==
    ReadOverStored =>
        /\ readSaw[Observed] = "parsed"
        /\ \/ result[Observed] = prev.result
           \/ \E R \in SaveInputs :
                 result[Observed] = Returned(Parse(Stringify(R)).val)

\* Both callers are through a getProperties that found no backing file
\* and did not fail: each read before the other had written.
BothSeeded == \A c \in Callers : SeededFromAbsent(c)

\* C21 as claimed: once both are through, each has three records with
\* the seeded identifiers, and the file holds exactly the collection
\* returned to each of them.
C21_ConcurrentSeedsAgree ==
    BothSeeded =>
        \A c \in Callers :
            /\ result[c].kind = "value"
            /\ Len(result[c].val) = 3
            /\ IsSeed(result[c].val)
            /\ FileHolds(result[c].val)

\* C21 as amended: each has three records with the seeded identifiers;
\* the file holds three records with those identifiers, whole, which are
\* the collection returned to one of the two callers; and what was
\* returned to the other differs from it in dateCreated and dateUpdated
\* at most.
C21_ConcurrentSeedsAgreeUndated ==
    BothSeeded =>
        /\ \A c \in Callers :
              /\ result[c].kind = "value"
              /\ Len(result[c].val) = 3
              /\ IsSeed(result[c].val)
        /\ file.exists
        /\ Parse(file.text).ok
        /\ Len(Parse(file.text).val) = 3
        /\ IsSeed(Parse(file.text).val)
        /\ \E c \in Callers : FileHolds(result[c].val)
        /\ \A c \in Callers : \A i \in 1..3 :
              Undated(result[c].val[i]) = Undated(Parse(file.text).val[i])

\* Both seeded, the clock moved between their catch blocks, and the file
\* holds the second caller's records, whose time stamps are not the first's.
C21_Witness ==
    /\ BothSeeded
    /\ FileHolds(result["c2"].val)
    /\ Stamps(result["c1"].val) = << 0, 0, 0, 0, 0, 0 >>
    /\ Stamps(result["c2"].val) = << 1, 1, 1, 1, 1, 1 >>

\* C22: the step in which getProperties reads and parses the file ends
\* the call and leaves the file and the directory as they are; and a
\* getProperties is in saveProperties (at fs.access, fs.mkdir or
\* fs.writeFile) only when its read or its parse failed.
C22_NoWriteWhenParsed ==
    [][ \A c \in Callers :
          /\ (pc[c] = "readFile" /\ readSaw'[c] = "parsed")
                => (pc'[c] = "done" /\ file' = file /\ dirExists' = dirExists)
          /\ (op'[c] = "listAll" /\ pc'[c] \in {"access", "mkdir", "open", "write"})
                => readSaw'[c] \in {"absent", "corrupt"}
          /\ (op[c] = "listAll" /\ readSaw[c] = "parsed")
                => (file' = file \/ \E d \in Callers \ {c} : pc'[d] # pc[d]) ]_vars

\* A getProperties parsed the collection another caller had saved and
\* returned it, without a fs.mkdir and without a text to write; the file
\* holds that collection still.
C22_Witness ==
    /\ pc["c1"] = "done" /\ op["c1"] = "listAll"
    /\ readSaw["c1"] = "parsed"
    /\ mkdirs["c1"] = 0 /\ buf["c1"] = << >>
    /\ SaveReturned("c2")
    /\ FileHolds(props["c2"])
    /\ result["c1"] = Returned(props["c2"])

\* C23: whatever the file holds, a getProperties that returns returns an
\* array of records, the three defaults when the file did not hold an
\* array, and getPropertyById does not fail.
C23_AlwaysASequence ==
    /\ (pc[Observed] = "done" /\ op[Observed] = "listAll") =>
          result[Observed].kind = "value"
    /\ (pc[Observed] = "done" /\ op[Observed] = "getById") =>
          result[Observed].kind # "error"


\* ---------------------------------------------------------------------
\* The browser: timers.  Delays are counted in whole seconds; a timer
\* fires when its delay has run out, and the clock does not move past a
\* timer that is due.
\* ---------------------------------------------------------------------

Handles == { popup.popupInterval, popup.fallbackTimer, deb.timeout }

TimerIds(ts) == { ts[i].id : i \in DOMAIN ts }

\* setTimeout and setInterval hand out an id no live handle refers to.
FreshId(ts) ==
    CHOOSE n \in 1..(Len(ts) + 4) :
        /\ n \notin (TimerIds(ts) \cup Handles)
        /\ \A m \in 1..(n - 1) : m \in (TimerIds(ts) \cup Handles)

SetTimeout(ts, kind, delay, args) ==
    Append(ts, [id |-> FreshId(ts), kind |-> kind, left |-> delay,
                every |-> 0, args |-> args])

SetInterval(ts, kind, delay) ==
    Append(ts, [id |-> FreshId(ts), kind |-> kind, left |-> delay,
                every |-> delay, args |-> ""])

\* clearTimeout / clearInterval: an id that names no pending timer is ignored
ClearTimeout(ts, id) == SelectSeq(ts, LAMBDA t : t.id # id)

Due(kind) == { i \in DOMAIN timers : timers[i].kind = kind /\ timers[i].left = 0 }

Armed(ts, kind) == { i \in DOMAIN ts : ts[i].kind = kind }

\* the legacy popup hides itself this long after it was shown
AutoHideDelay == 15

Min(a, b) == IF a < b THEN a ELSE b

\* One second passes.
Tick ==
    /\ \A i \in DOMAIN timers : timers[i].left > 0
    /\ timers' = [i \in DOMAIN timers |-> [timers[i] EXCEPT !.left = @ - 1]]
    /\ deb' = [deb EXCEPT !.sinceCall = Min(@ + 1, deb.wait)]
    /\ legacy' = [legacy EXCEPT !.visibleFor =
                      IF legacy.show THEN Min(@ + 1, AutoHideDelay) ELSE @]
    /\ UNCHANGED << store, forms, popup, nav >>

\* ---------------------------------------------------------------------
\* main.js: PopupManager
\* ---------------------------------------------------------------------

ScrollDelay == 2
ClickDelay == 1
FallbackDelay == 15
RecurringPeriod == 60

\* popupElement is present: init() bound the events and schedulePopup() ran
PopupScheduled ==
    [PopupUnbound EXCEPT !.scrollBound = TRUE, !.clickBound = TRUE,
                         !.fallbackTimer = 1]

FallbackPending ==
    << [id |-> 1, kind |-> "fallback", left |-> FallbackDelay, every |-> 0,
        args |-> ""] >>

showPopup(p) == IF p.active THEN p ELSE [p EXCEPT !.active = TRUE]

hidePopup(p) == [p EXCEPT !.active = FALSE]

\* b is the pair [popup, timers] a handler works on
startRecurringPopups(b) ==
    LET ts == IF b.popup.popupInterval # 0
              THEN ClearTimeout(b.timers, b.popup.popupInterval)
              ELSE b.timers
    IN [popup |-> [b.popup EXCEPT !.popupInterval = FreshId(ts)],
        timers |-> SetInterval(ts, "recurring", RecurringPeriod)]

\* the same without the hasInteracted test
showPopupAfterInteractionUnguarded(b) ==
    [popup |-> [b.popup EXCEPT !.hasInteracted = TRUE, !.scheduled = @ + 1],
     timers |-> SetTimeout(b.timers, "delayed", ScrollDelay, "")]

showPopupAfterInteraction(b) ==
    IF b.popup.hasInteracted
    THEN b
    ELSE [popup |-> [b.popup EXCEPT !.hasInteracted = TRUE,
                                    !.scheduled = @ + 1],
          timers |-> SetTimeout(b.timers, "delayed", ScrollDelay, "")]

\* the { once: true } click listener on document; every click that is
\* allowed to bubble reaches it
documentClick(b) ==
    IF ~b.popup.clickBound
    THEN b
    ELSE LET u == [b.popup EXCEPT !.clickBound = FALSE]
         IN IF u.hasInteracted
            THEN [b EXCEPT !.popup = u]
            ELSE [popup |-> [u EXCEPT !.hasInteracted = TRUE,
                                      !.scheduled = @ + 1],
                  timers |-> SetTimeout(ClearTimeout(b.timers, u.fallbackTimer),
                                        "delayed", ClickDelay, "")]

Browser == [popup |-> popup, timers |-> timers]

Becomes(b) == popup' = b.popup /\ timers' = b.timers

\* the first scroll event
Scroll ==
    /\ popup.scrollBound
    /\ Becomes(showPopupAfterInteraction(
                   [Browser EXCEPT !.popup.scrollBound = FALSE]))
    /\ UNCHANGED << store, forms, nav, deb, legacy >>

\* a click on an element that has no listener of its own
ClickPage ==
    /\ popup.clickBound
    /\ Becomes(documentClick(Browser))
    /\ UNCHANGED << store, forms, nav, deb, legacy >>

FallbackTimer ==
    \E i \in Due("fallback") :
        LET b == [Browser EXCEPT !.timers = ClearTimeout(timers, timers[i].id)]
        IN /\ \/ popup.hasInteracted /\ Becomes(b)
              \/ ~popup.hasInteracted
                 /\ Becomes([b EXCEPT !.popup.fontsPending = TRUE])
              \/ ~popup.hasInteracted
                 /\ Becomes(showPopupAfterInteraction(b))
           /\ UNCHANGED << store, forms, nav, deb, legacy >>

\* document.fonts.ready is fulfilled and its callback runs
FontsReady ==
    /\ popup.fontsPending
    /\ Becomes(showPopupAfterInteraction(
                   [Browser EXCEPT !.popup.fontsPending = FALSE]))
    /\ UNCHANGED << store, forms, nav, deb, legacy >>

\* the timeout set after the first interaction
DelayedShow ==
    \E i \in Due("delayed") :
        /\ Becomes(startRecurringPopups(
                       [popup |-> showPopup(popup),
                        timers |-> ClearTimeout(timers, timers[i].id)]))
        /\ UNCHANGED << store, forms, nav, deb, legacy >>

\* the same as a timeout: it is not armed again
RecurringTickOnce ==
    \E i \in Due("recurring") :
        /\ timers' = ClearTimeout(timers, timers[i].id)
        /\ popup' = showPopup(popup)
        /\ UNCHANGED << store, forms, nav, deb, legacy >>

RecurringTick ==
    \E i \in Due("recurring") :
        /\ timers' = [timers EXCEPT ![i].left = timers[i].every]
        /\ popup' = showPopup(popup)
        /\ UNCHANGED << store, forms, nav, deb, legacy >>

ClickPopupClose ==
    /\ popup.active
    /\ Becomes(documentClick([Browser EXCEPT !.popup = hidePopup(popup)]))
    /\ UNCHANGED << store, forms, nav, deb, legacy >>

ClickPopupOutside ==
    /\ popup.active
    /\ Becomes(documentClick([Browser EXCEPT !.popup = hidePopup(popup)]))
    /\ UNCHANGED << store, forms, nav, deb, legacy >>

PressEscape ==
    /\ popup.active
    /\ popup' = hidePopup(popup)
    /\ UNCHANGED << store, forms, timers, nav, deb, legacy >>

\* a .popup-trigger button: its handler stops the event's propagation
ClickPopupTrigger ==
    /\ popup' = showPopup(popup)
    /\ UNCHANGED << store, forms, timers, nav, deb, legacy >>


\* ---------------------------------------------------------------------
\* main.js: MobileNavigation
\* ---------------------------------------------------------------------

\* data-dropdown of the triggers; "mobile-" + name is the element looked up
Triggers == { "services", "about", "missing" }

\* the .mobile-dropdown elements of the page
MobileDropdowns == { "mobile-services", "mobile-about" }

\* the same with the overlay shown rather than toggled
toggleSidebarShowsOverlay(n) ==
    LET sidebar == ~n.sidebar
    IN [n EXCEPT !.sidebar = sidebar, !.overlay = TRUE, !.toggle = ~n.toggle,
                 !.overflow = IF sidebar THEN "hidden" ELSE ""]

toggleSidebar(n) ==
    LET sidebar == ~n.sidebar
    IN [n EXCEPT !.sidebar = sidebar, !.overlay = ~n.overlay,
                 !.toggle = ~n.toggle,
                 !.overflow = IF sidebar THEN "hidden" ELSE ""]

closeSidebar(n) ==
    [n EXCEPT !.sidebar = FALSE, !.overlay = FALSE, !.toggle = FALSE,
              !.overflow = ""]

\* the same without the loop that closes the other dropdowns
clickTriggerKeepsOthers(n, t) ==
    LET dropdown == "mobile-" \o t
    IN IF dropdown \in MobileDropdowns
       THEN [n EXCEPT !.dropdowns =
                 IF dropdown \in @ THEN @ \ {dropdown} ELSE @ \cup {dropdown}]
       ELSE n

clickTrigger(n, t) ==
    LET dropdown == "mobile-" \o t
        others == { d \in MobileDropdowns : d # dropdown }
        closed == n.dropdowns \ others
    IN IF dropdown \in MobileDropdowns
       THEN [n EXCEPT !.dropdowns =
                 IF dropdown \in closed
                 THEN closed \ {dropdown}
                 ELSE closed \cup {dropdown}]
       ELSE n

ClickMobileToggle ==
    /\ nav' = toggleSidebar(nav)
    /\ Becomes(documentClick(Browser))
    /\ UNCHANGED << store, forms, deb, legacy >>

ClickMobileOverlay ==
    /\ nav' = closeSidebar(nav)
    /\ Becomes(documentClick(Browser))
    /\ UNCHANGED << store, forms, deb, legacy >>

ClickSidebarLink ==
    /\ nav' = closeSidebar(nav)
    /\ Becomes(documentClick(Browser))
    /\ UNCHANGED << store, forms, deb, legacy >>

ClickDropdownTrigger(t) ==
    /\ nav' = clickTrigger(nav, t)
    /\ Becomes(documentClick(Browser))
    /\ UNCHANGED << store, forms, deb, legacy >>

\* ---------------------------------------------------------------------
\* The page of main.js after App.initializeComponents()
\* ---------------------------------------------------------------------

StoreAtRest ==
    /\ dirExists = TRUE
    /\ dirCreatable = TRUE
    /\ file = Absent
    /\ clock = 0
    /\ pc = [c \in AllCallers |-> "idle"]
    /\ op = [c \in AllCallers |-> "none"]
    /\ arg = [c \in AllCallers |-> ""]
    /\ props = [c \in AllCallers |-> << >>]
    /\ buf = [c \in AllCallers |-> << >>]
    /\ fd = [c \in AllCallers |-> FALSE]
    /\ result = [c \in AllCallers |-> Pending]
    /\ readSaw = [c \in AllCallers |-> "nothing"]
    /\ mkdirs = [c \in AllCallers |-> 0]
    /\ rmw = [c \in AllCallers |-> FALSE]
    /\ prev = NoPrev
    /\ disturbed = FALSE
    /\ disturbedPrev = FALSE

InitPage ==
    /\ StoreAtRest
    /\ timers = FallbackPending
    /\ popup = PopupScheduled
    /\ nav = NavInactive
    /\ deb = NoDebounce
    /\ legacy = LegacyUnbound
    /\ FormsClosed

NextPage ==
    \/ Tick
    \/ Scroll
    \/ ClickPage
    \/ FallbackTimer
    \/ FontsReady
    \/ DelayedShow
    \/ RecurringTick
    \/ ClickPopupClose
    \/ ClickPopupOutside
    \/ PressEscape
    \/ ClickPopupTrigger
    \/ ClickMobileToggle
    \/ ClickMobileOverlay
    \/ ClickSidebarLink
    \/ \E t \in Triggers : ClickDropdownTrigger(t)

SpecPage == InitPage /\ [][NextPage]_vars

\* Time does not stop, and a timer that is due fires.
Timing ==
    WF_vars(Tick \/ FallbackTimer \/ DelayedShow \/ RecurringTick)

SpecPageLive == SpecPage /\ Timing


\* nothing is left that could still schedule the first popup
SchedulingSettled ==
    /\ Armed(timers, "fallback") = {}
    /\ ~popup.fontsPending

\* C24: however the first scroll, the first click, the fallback timer and
\* the fonts-ready callback interleave, the delayed showPopup +
\* startRecurringPopups pair is scheduled once and never twice, and at
\* most one recurring interval is active.
C24_ScheduledExactlyOnce ==
    /\ popup.scheduled <= 1
    /\ popup.hasInteracted <=> popup.scheduled = 1
    /\ SchedulingSettled => popup.scheduled = 1
    /\ Cardinality(Armed(timers, "delayed")) <= 1
    /\ Cardinality(Armed(timers, "recurring")) <= 1

\* the first click arrived after the fallback timer had fired and before
\* the fonts-ready callback ran: the click scheduled the pair, and the
\* callback is still to come
C24_Witness ==
    /\ popup.fontsPending
    /\ ~popup.clickBound
    /\ popup.scheduled = 1
    /\ Armed(timers, "delayed") # {}


RecurringStarted == popup.popupInterval # 0

\* C25: once the recurring interval has started, a popup that is hidden
\* (by the close button, an outside click or Escape) is eventually shown
\* again; and showPopup on a popup that is already active changes nothing.
C25_DismissalDoesNotStopRecurring ==
    /\ (RecurringStarted /\ ~popup.active) ~> popup.active
    /\ [][(popup.active /\ (RecurringTick \/ ClickPopupTrigger))
             => popup' = popup]_vars

\* the interval has started and the user has dismissed the popup
C25_Witness ==
    /\ RecurringStarted
    /\ ~popup.active
    /\ Armed(timers, "recurring") # {}


\* C26: after the first popup, the popup is shown again on an interval
\* of 50 seconds.
C26_RecurringEveryFiftySeconds ==
    \A i \in Armed(timers, "recurring") :
        /\ timers[i].every = 50
        /\ timers[i].left <= 50


\* C29: after any sequence of toggleSidebar and closeSidebar calls from
\* the all-inactive page, the sidebar, the overlay and the toggle button
\* are all active or all inactive, and the body's overflow is hidden
\* exactly when the sidebar is active.
C29_SidebarConsistent ==
    /\ nav.overlay = nav.sidebar
    /\ nav.toggle = nav.sidebar
    /\ nav.overflow = "hidden" <=> nav.sidebar

\* the sidebar is open, body scrolling locked, after the page's first
\* click was spent and the first popup was shown
C29_Witness ==
    /\ nav.sidebar
    /\ nav.overflow = "hidden"
    /\ ~popup.clickBound
    /\ popup.active

\* C30: from no active dropdown, after any sequence of clicks on mobile
\* dropdown triggers at most one mobile dropdown is active; a click on a
\* trigger closes every other dropdown and toggles its own.
C30_OneDropdownAtMost ==
    /\ [](Cardinality(nav.dropdowns) <= 1)
    /\ [][\A t \in Triggers :
             (ClickDropdownTrigger(t) /\ ("mobile-" \o t) \in MobileDropdowns)
                 => nav'.dropdowns =
                        IF ("mobile-" \o t) \in nav.dropdowns
                        THEN {}
                        ELSE {"mobile-" \o t}]_vars

\* one dropdown is open in the open sidebar
C30_Witness ==
    /\ nav.dropdowns = {"mobile-about"}
    /\ nav.sidebar


\* ---------------------------------------------------------------------
\* The legacy script: its popup
\* ---------------------------------------------------------------------

FirstPopupDelay == 10
LegacyPeriod == 40

\* testPopup() is not called while this many auto-hide timers are pending
MaxPending == 2

\* b is the pair [legacy, timers] a handler works on
legacyShowPopup(b) ==
    IF b.legacy.show
    THEN b
    ELSE [legacy |-> [b.legacy EXCEPT !.show = TRUE, !.visibleFor = 0],
          timers |-> SetTimeout(b.timers, "autoHide", AutoHideDelay, "")]

legacyHidePopup(l) == [l EXCEPT !.show = FALSE]

Legacy == [legacy |-> legacy, timers |-> timers]

LegacyBecomes(b) == legacy' = b.legacy /\ timers' = b.timers

\* popupTimer: the first popup, which also starts the interval
LegacyFirstPopup ==
    \E i \in Due("legacyFirst") :
        LET b == legacyShowPopup(
                     [Legacy EXCEPT !.timers = ClearTimeout(timers, timers[i].id)])
        IN /\ LegacyBecomes(
                  [b EXCEPT !.timers = SetInterval(@, "legacyRecurring", LegacyPeriod)])
           /\ UNCHANGED << store, forms, popup, nav, deb >>

LegacyRecurringTick ==
    \E i \in Due("legacyRecurring") :
        /\ LegacyBecomes(legacyShowPopup(
               [Legacy EXCEPT !.timers[i].left = timers[i].every]))
        /\ UNCHANGED << store, forms, popup, nav, deb >>

\* the timeout set by one showing
AutoHideTimer ==
    \E i \in Due("autoHide") :
        /\ timers' = ClearTimeout(timers, timers[i].id)
        /\ legacy' = IF legacy.show THEN legacyHidePopup(legacy) ELSE legacy
        /\ UNCHANGED << store, forms, popup, nav, deb >>

LegacyClickClose ==
    /\ legacy.show
    /\ legacy' = legacyHidePopup(legacy)
    /\ UNCHANGED << store, forms, timers, popup, nav, deb >>

LegacyClickOutside ==
    /\ legacy.show
    /\ legacy' = legacyHidePopup(legacy)
    /\ UNCHANGED << store, forms, timers, popup, nav, deb >>

LegacyPressEscape ==
    /\ legacy.show
    /\ legacy' = legacyHidePopup(legacy)
    /\ UNCHANGED << store, forms, timers, popup, nav, deb >>

testPopup ==
    /\ legacy.show \/ Cardinality(Armed(timers, "autoHide")) < MaxPending
    /\ LegacyBecomes(legacyShowPopup(Legacy))
    /\ UNCHANGED << store, forms, popup, nav, deb >>

\* after initPopup() on a page that has the contactPopup element
InitLegacy ==
    /\ StoreAtRest
    /\ timers = << [id |-> 1, kind |-> "legacyFirst", left |-> FirstPopupDelay,
                    every |-> 0, args |-> ""] >>
    /\ popup = PopupUnbound
    /\ nav = NavInactive
    /\ deb = NoDebounce
    /\ legacy = LegacyUnbound
    /\ FormsClosed

NextLegacy ==
    \/ Tick
    \/ LegacyFirstPopup
    \/ LegacyRecurringTick
    \/ AutoHideTimer
    \/ LegacyClickClose
    \/ LegacyClickOutside
    \/ LegacyPressEscape
    \/ testPopup

SpecLegacy == InitLegacy /\ [][NextLegacy]_vars

\* C27: every showing of the legacy popup hides itself 15 seconds after
\* that showing, and a visible popup is never hidden by an auto-hide
\* timer earlier than 15 seconds after it became visible, also when an
\* earlier showing was dismissed before its own timer fired.
C27_AutoHideAfterFifteenSeconds ==
    /\ [](legacy.show =>
             \E i \in Armed(timers, "autoHide") :
                 timers[i].left = AutoHideDelay - legacy.visibleFor)
    /\ [][(AutoHideTimer /\ legacy.show /\ ~legacy'.show)
             => legacy.visibleFor = AutoHideDelay]_vars


\* ---------------------------------------------------------------------
\* main.js: debounce(func, wait)
\* ---------------------------------------------------------------------

\* the largest wait tried
MaxWait == 3

\* what the debounced function is called with
Args == { "a", "b" }

\* deb.timeout is the closure's `timeout`; args, sinceCall and called
\* describe the most recent call, burst counts (up to 2) the calls made
\* since func last ran, superseded holds the arguments of the latest call
\* whose timeout was still pending when the next call came, ranWith and
\* ranAfter describe the latest run of func (its arguments, and the time
\* since the most recent call at which it ran), runs counts the runs of
\* func since the most recent call.

\* the same without the clearTimeout before the new setTimeout
executedFunctionKeepsTimer(a) ==
    /\ deb.wait > 0
    /\ timers' = SetTimeout(timers, "later", deb.wait, a)
    /\ deb' = [deb EXCEPT !.timeout = FreshId(timers),
                          !.args = a, !.sinceCall = 0, !.called = TRUE,
                          !.burst = IF Armed(timers, "later") # {}
                                    THEN 2 ELSE 1,
                          !.superseded = IF Armed(timers, "later") # {}
                                         THEN deb.args ELSE @,
                          !.runs = 0]
    /\ UNCHANGED << store, forms, popup, nav, legacy >>

executedFunction(a) ==
    /\ deb.wait > 0
    /\ LET ts == ClearTimeout(timers, deb.timeout)
       IN /\ timers' = SetTimeout(ts, "later", deb.wait, a)
          /\ deb' = [deb EXCEPT !.timeout = FreshId(ts),
                                !.args = a, !.sinceCall = 0, !.called = TRUE,
                                !.burst = IF Armed(timers, "later") # {}
                                          THEN 2 ELSE 1,
                                !.superseded = IF Armed(timers, "later") # {}
                                               THEN deb.args ELSE @,
                                !.runs = 0]
    /\ UNCHANGED << store, forms, popup, nav, legacy >>

\* the timeout fires: clearTimeout(timeout); func(...args)
later ==
    \E i \in Due("later") :
        /\ timers' = ClearTimeout(ClearTimeout(timers, timers[i].id),
                                  deb.timeout)
        /\ deb' = [deb EXCEPT !.ranWith = timers[i].args,
                              !.ranAfter = deb.sinceCall,
                              !.runs = Min(@ + 1, 2)]
        /\ UNCHANGED << store, forms, popup, nav, legacy >>

InitDebounce ==
    /\ StoreAtRest
    /\ timers = NoTimers
    /\ popup = PopupUnbound
    /\ nav = NavInactive
    /\ legacy = LegacyUnbound
    /\ FormsClosed
    /\ \E w \in 1..MaxWait : deb = [NoDebounce EXCEPT !.wait = w]

NextDebounce ==
    \/ Tick
    \/ \E a \in Args : executedFunction(a)
    \/ later

SpecDebounce == InitDebounce /\ [][NextDebounce]_vars

\* C28: func runs only when wait has elapsed since the most recent call,
\* at most one invocation is pending, a burst of calls yields exactly one
\* invocation of func, and that invocation receives the arguments of the
\* last call of the burst.
C28_Debounce ==
    /\ Cardinality(Armed(timers, "later")) <= 1
    /\ deb.runs <= 1
    /\ (deb.called /\ deb.sinceCall < deb.wait) => deb.runs = 0
    /\ deb.runs = 1 => (deb.ranAfter = deb.wait /\ deb.ranWith = deb.args)
    /\ (deb.called /\ Armed(timers, "later") = {}) => deb.runs = 1

\* a burst of calls less than wait apart, the last but one with "a" and
\* the last with "b", was followed by one run of func, with "b"
C28_Witness ==
    /\ deb.wait = 2
    /\ deb.burst = 2
    /\ deb.superseded = "a"
    /\ deb.args = "b"
    /\ deb.runs = 1
    /\ deb.ranWith = "b"


\* ---------------------------------------------------------------------
\* main.js: FormValidator, on one form with an email input, a tel input,
\* a .country-code select and a submit button.  Values are sequences of
\* characters.
\* ---------------------------------------------------------------------

Letter == { "a", "b", "c", "m", "o", "A", "C", "O" }
Digit == { "1", "7" }
LocalChar == Letter \cup Digit \cup { ".", "_", "%", "+", "-" }
DomainChar == Letter \cup Digit \cup { ".", "-" }

AllIn(text, from, to, class) == \A j \in from..to : text[j] \in class

\* emailRegex.test: /^[a-z0-9._%+-]+@[a-z0-9.-]+\.[a-z]{2,}$/i
emailRegexTest(text) ==
    \E at \in 2..Len(text) : \E dot \in (at + 2)..(Len(text) - 2) :
        /\ AllIn(text, 1, at - 1, LocalChar)
        /\ text[at] = "@"
        /\ AllIn(text, at + 1, dot - 1, DomainChar)
        /\ text[dot] = "."
        /\ AllIn(text, dot + 1, Len(text), Letter)

Digits(n) == [i \in 1..n |-> "7"]

EmailInputs ==
    { << >>,
      << "a", "@", "b", ".", "c", "o" >>,
      << "A", "@", "b", ".", "C", "O" >>,
      << "a", ".", "b", "@", "c", ".", "a", ".", "o", "m" >>,
      << "a", "@", "b", ".", "c" >>,
      << "a", "@", "b", ".", "c", "1" >>,
      << "a", "b", ".", "c", "o" >>,
      << "a", "@", ".", "c", "o" >>,
      << "a", " ", "@", "b", ".", "c", "o" >> }

\* what is typed into the tel input
PhoneInputs ==
    { << >>, << " " >>, Digits(5), Digits(9), Digits(10),
      Digits(4) \o << "-" >> \o Digits(5) }

Countries == { "+91", "+971", "+1" }

Red == "#ff4444"

\* element.style.borderColor read back: the engine serialises the colour
\* it was given, as rgb() under CSSOM, unchanged in engines that keep the
\* author's text
BorderColor(stored, serialises) ==
    IF stored = Red /\ serialises = "rgb"
    THEN "rgb(255, 68, 68)"
    ELSE stored

\* value.replace(/[^0-9]/g, '')
DecimalDigit == { "0", "1", "2", "3", "4", "5", "6", "7", "8", "9" }

StripNonDigits(text) == SelectSeq(text, LAMBDA ch : ch \in DecimalDigit)

clearEmailStyling(f) == [f EXCEPT !.emailBorder = "", !.emailValidity = ""]

clearPhoneStyling(f) == [f EXCEPT !.phoneBorder = "", !.phoneValidity = ""]

validateEmail(f) ==
    IF f.email # << >> /\ ~emailRegexTest(f.email)
    THEN [f EXCEPT !.emailBorder = Red,
                   !.emailValidity = "Please enter a valid email address"]
    ELSE clearEmailStyling(f)

validatePhoneNumber(f) ==
    LET errorMessage ==
            IF f.phone = << >> THEN ""
            ELSE IF f.country = "+91" /\ Len(f.phone) # 10
                 THEN "Please enter exactly 10 digits for Indian phone number"
            ELSE IF f.country = "+971" /\ Len(f.phone) # 9
                 THEN "Please enter exactly 9 digits for UAE phone number"
            ELSE ""
    IN IF errorMessage # ""
       THEN [f EXCEPT !.phoneBorder = Red, !.phoneValidity = errorMessage]
       ELSE clearPhoneStyling(f)

validateForm(f) ==
    LET emailBad == f.email # << >> /\ ~emailRegexTest(f.email)
        e == IF emailBad THEN validateEmail(f) ELSE f
        p == IF e.phone # << >> THEN validatePhoneNumber(e) ELSE e
        phoneBad == /\ p.phone # << >>
                    /\ BorderColor(p.phoneBorder, p.serialises) = Red
    IN IF emailBad \/ phoneBad
       THEN [p EXCEPT !.outcome = "prevented"]
       ELSE [p EXCEPT !.outcome = "submitted", !.submitText = "Sending...",
                      !.submitDisabled = TRUE]

\* the page is still there: the form has not been sent
OnPage == form.outcome # "submitted"

\* focus on the email input, then its value is edited
TypeEmail(text) ==
    /\ OnPage
    /\ form' = [clearEmailStyling(form) EXCEPT !.email = text,
                                               !.outcome = "none"]
    /\ UNCHANGED << store, timers, popup, nav, deb, legacy, navbar, contact >>

BlurEmail ==
    /\ OnPage
    /\ form' = validateEmail(form)
    /\ UNCHANGED << store, timers, popup, nav, deb, legacy, navbar, contact >>

\* focus on the tel input, then its value is edited
TypePhone(text) ==
    /\ OnPage
    /\ form' = [clearPhoneStyling(form) EXCEPT !.phone = StripNonDigits(text),
                                               !.outcome = "none"]
    /\ UNCHANGED << store, timers, popup, nav, deb, legacy, navbar, contact >>

BlurPhone ==
    /\ OnPage
    /\ form' = validatePhoneNumber(form)
    /\ UNCHANGED << store, timers, popup, nav, deb, legacy, navbar, contact >>

ChangeCountry(code) ==
    /\ OnPage
    /\ code # form.country
    /\ LET f == [form EXCEPT !.country = code, !.outcome = "none"]
       IN form' = IF f.phone # << >> THEN validatePhoneNumber(f) ELSE f
    /\ UNCHANGED << store, timers, popup, nav, deb, legacy, navbar, contact >>

\* the submit event; the browser does not fire it while a control carries
\* a custom validity message
Submit ==
    /\ OnPage
    /\ form.emailValidity = "" /\ form.phoneValidity = ""
    /\ form' = validateForm(form)
    /\ UNCHANGED << store, timers, popup, nav, deb, legacy, navbar, contact >>

InitForm ==
    /\ StoreAtRest
    /\ timers = NoTimers
    /\ popup = PopupUnbound
    /\ nav = NavInactive
    /\ deb = NoDebounce
    /\ legacy = LegacyUnbound
    /\ navbar = NoNavbar
    /\ contact = NoContact
    /\ \E mode \in {"rgb", "hex"} : form = [NoForm EXCEPT !.serialises = mode]

NextForm ==
    \/ \E text \in EmailInputs : TypeEmail(text)
    \/ BlurEmail
    \/ \E text \in PhoneInputs : TypePhone(text)
    \/ BlurPhone
    \/ \E code \in Countries : ChangeCountry(code)
    \/ Submit

SpecForm == InitForm /\ [][NextForm]_vars

EmailWrong == form.email # << >> /\ ~emailRegexTest(form.email)

PhoneWrong ==
    /\ form.phone # << >>
    /\ \/ form.country = "+91" /\ Len(form.phone) # 10
       \/ form.country = "+971" /\ Len(form.phone) # 9

\* C31: validateForm prevents the submission exactly when the email is
\* non-empty and does not match the pattern, or the phone is non-empty and
\* is not 10 digits long under +91 or not 9 digits long under +971.
C31_PreventsExactlyInvalid ==
    form.outcome # "none" =>
        (form.outcome = "prevented" <=> (EmailWrong \/ PhoneWrong))


\* ---------------------------------------------------------------------
\* main.js: NavbarScroll
\* ---------------------------------------------------------------------

scrollThreshold == 10

\* the page scrolls this far, in px
MaxScrollTop == 30

\* offsetHeight of the navbar, in px
NavbarHeights == { 0, 12 }

Abs(n) == IF n < 0 THEN 0 - n ELSE n

showNavbar(n) == [n EXCEPT !.transform = "translateY(0)"]

hideNavbar(n) == [n EXCEPT !.transform = "translateY(-navbarHeight)"]

\* the same without the test of the threshold
handleScrollAnyMovement(n, currentScrollTop) ==
    LET m == [n EXCEPT !.scrollTop = currentScrollTop]
    IN IF currentScrollTop <= m.navbarHeight
       THEN [showNavbar(m) EXCEPT !.lastScrollTop = currentScrollTop]
       ELSE IF currentScrollTop > m.lastScrollTop
            THEN [hideNavbar(m) EXCEPT !.lastScrollTop = currentScrollTop]
            ELSE [showNavbar(m) EXCEPT !.lastScrollTop = currentScrollTop]

\* n.scrollTop keeps the position the navbar last handled
handleScroll(n, currentScrollTop) ==
    LET m == [n EXCEPT !.scrollTop = currentScrollTop]
    IN IF currentScrollTop <= m.navbarHeight
       THEN [showNavbar(m) EXCEPT !.lastScrollTop = currentScrollTop]
       ELSE IF Abs(currentScrollTop - m.lastScrollTop) < scrollThreshold
            THEN m
            ELSE IF currentScrollTop > m.lastScrollTop
                 THEN [hideNavbar(m) EXCEPT !.lastScrollTop = currentScrollTop]
                 ELSE [showNavbar(m) EXCEPT !.lastScrollTop = currentScrollTop]

\* the debounced scroll listener runs with the window at position y
HandleScroll(y) ==
    /\ navbar' = handleScroll(navbar, y)
    /\ UNCHANGED << store, timers, popup, nav, deb, legacy, form, contact >>

InitNavbar ==
    /\ StoreAtRest
    /\ timers = NoTimers
    /\ popup = PopupUnbound
    /\ nav = NavInactive
    /\ deb = NoDebounce
    /\ legacy = LegacyUnbound
    /\ form = NoForm
    /\ contact = NoContact
    /\ \E h \in NavbarHeights : navbar = [NoNavbar EXCEPT !.navbarHeight = h]

NextNavbar == \E y \in 0..MaxScrollTop : HandleScroll(y)

SpecNavbar == InitNavbar /\ [][NextNavbar]_vars

NavbarHidden == navbar.transform = "translateY(-navbarHeight)"

\* C32: after handleScroll the navbar is shown when the position is at
\* most the navbar height; beyond that it is hidden only after a downward
\* movement of at least the threshold from the recorded position, shown
\* after such an upward movement, and a smaller movement changes neither
\* the navbar nor the recorded position.
C32_NavbarFollowsScroll ==
    [][\A y \in 0..MaxScrollTop :
          HandleScroll(y) =>
              LET moved == y - navbar.lastScrollTop
              IN /\ y <= navbar.navbarHeight => ~NavbarHidden'
                 /\ (NavbarHidden' /\ ~NavbarHidden) =>
                        (y > navbar.navbarHeight /\ moved >= scrollThreshold)
                 /\ (y > navbar.navbarHeight /\ moved >= scrollThreshold)
                        => NavbarHidden'
                 /\ (y > navbar.navbarHeight /\ 0 - moved >= scrollThreshold)
                        => ~NavbarHidden'
                 /\ (y > navbar.navbarHeight /\ Abs(moved) < scrollThreshold)
                        => /\ navbar'.transform = navbar.transform
                           /\ navbar'.lastScrollTop = navbar.lastScrollTop]_vars

\* beyond the navbar's height, the navbar stayed hidden through a move of
\* less than the threshold, back up from the recorded position
C32_Witness ==
    /\ NavbarHidden
    /\ navbar.navbarHeight = 12
    /\ navbar.scrollTop > navbar.navbarHeight
    /\ navbar.scrollTop < navbar.lastScrollTop
    /\ navbar.lastScrollTop - navbar.scrollTop < scrollThreshold


\* ---------------------------------------------------------------------
\* The legacy script: its contact form and the notifications it shows
\* ---------------------------------------------------------------------

\* a notification removes itself after this long
NotificationDelay == 5

\* the form is not submitted while this many notification timers are pending
MaxNotifications == 2

\* c.inFlight holds, per submission awaiting its fetch, the originalText
\* that run of the handler captured; c.notifications the notification
\* elements in the document, each named by the id of its timer;
\* c.settled how the latest attempt ended.

\* b is the pair [contact, timers] a handler works on
showNotification(b, type) ==
    [contact |-> [b.contact EXCEPT !.notifications =
                      Append(@, [id |-> FreshId(b.timers), type |-> type])],
     timers |-> SetTimeout(b.timers, "notification", NotificationDelay, type)]

\* the finally block of the submission that captured originalText
restoreButton(c, originalText) ==
    [c EXCEPT !.submitText = originalText, !.submitDisabled = FALSE]

Contact == [contact |-> contact, timers |-> timers]

ContactBecomes(b) == contact' = b.contact /\ timers' = b.timers

Without(seq, i) == SubSeq(seq, 1, i - 1) \o SubSeq(seq, i + 1, Len(seq))

\* the user edits the fields of the form
FillFields ==
    /\ contact.fields = "empty"
    /\ contact' = [contact EXCEPT !.fields = "filled"]
    /\ UNCHANGED << store, timers, popup, nav, deb, legacy, form, navbar >>

\* onsubmit up to its await; a disabled submit button submits nothing
ContactSubmit ==
    /\ ~contact.submitDisabled
    /\ Cardinality(Armed(timers, "notification")) < MaxNotifications
    /\ contact' = [contact EXCEPT
                       !.inFlight = Append(@, contact.submitText),
                       !.submitText = "Sending...",
                       !.submitDisabled = TRUE]
    /\ UNCHANGED << store, timers, popup, nav, deb, legacy, form, navbar >>

ResponseOk ==
    \E i \in DOMAIN contact.inFlight :
        LET c == [contact EXCEPT !.inFlight = Without(@, i),
                                 !.fields = "empty", !.settled = "ok"]
            b == showNotification([Contact EXCEPT !.contact = c], "success")
        IN /\ ContactBecomes([b EXCEPT !.contact =
                                  restoreButton(@, contact.inFlight[i])])
           /\ UNCHANGED << store, popup, nav, deb, legacy, form, navbar >>

ResponseNotOk ==
    \E i \in DOMAIN contact.inFlight :
        LET c == [contact EXCEPT !.inFlight = Without(@, i),
                                 !.settled = "failed"]
            b == showNotification([Contact EXCEPT !.contact = c], "error")
        IN /\ ContactBecomes([b EXCEPT !.contact =
                                  restoreButton(@, contact.inFlight[i])])
           /\ UNCHANGED << store, popup, nav, deb, legacy, form, navbar >>

\* the same without the finally block
NetworkErrorNoFinally ==
    \E i \in DOMAIN contact.inFlight :
        LET c == [contact EXCEPT !.inFlight = Without(@, i),
                                 !.settled = "error"]
        IN /\ ContactBecomes(
                  showNotification([Contact EXCEPT !.contact = c], "error"))
           /\ UNCHANGED << store, popup, nav, deb, legacy, form, navbar >>

\* fetch rejects
NetworkError ==
    \E i \in DOMAIN contact.inFlight :
        LET c == [contact EXCEPT !.inFlight = Without(@, i),
                                 !.settled = "error"]
            b == showNotification([Contact EXCEPT !.contact = c], "error")
        IN /\ ContactBecomes([b EXCEPT !.contact =
                                  restoreButton(@, contact.inFlight[i])])
           /\ UNCHANGED << store, popup, nav, deb, legacy, form, navbar >>

\* the notification's close button
CloseNotification ==
    \E i \in DOMAIN contact.notifications :
        /\ contact' = [contact EXCEPT !.notifications = Without(@, i)]
        /\ UNCHANGED << store, timers, popup, nav, deb, legacy, form, navbar >>

\* the notification's timeout: it removes the element if still attached
NotificationTimer ==
    \E i \in Due("notification") :
        /\ timers' = ClearTimeout(timers, timers[i].id)
        /\ contact' = [contact EXCEPT !.notifications =
                           SelectSeq(@, LAMBDA n : n.id # timers[i].id)]
        /\ UNCHANGED << store, popup, nav, deb, legacy, form, navbar >>

\* after initContactForm() on a page that has the contactForm element
InitContact ==
    /\ StoreAtRest
    /\ timers = NoTimers
    /\ popup = PopupUnbound
    /\ nav = NavInactive
    /\ deb = NoDebounce
    /\ legacy = LegacyUnbound
    /\ form = NoForm
    /\ navbar = NoNavbar
    /\ contact = NoContact

NextContact ==
    \/ Tick
    \/ FillFields
    \/ ContactSubmit
    \/ ResponseOk
    \/ ResponseNotOk
    \/ NetworkError
    \/ CloseNotification
    \/ NotificationTimer

SpecContact == InitContact /\ [][NextContact]_vars

ButtonRestored ==
    /\ ~contact.submitDisabled
    /\ contact.submitText = NoContact.submitText

\* C33: whenever no submission is in flight the submit button is enabled
\* and shows its original text; every attempt, whether it ends in success,
\* a non-OK response or a network error, restores both; and the fields
\* are reset only on an OK response.
C33_ButtonRestoredFieldsKept ==
    /\ [](contact.inFlight = << >> => ButtonRestored)
    /\ [][(ResponseOk \/ ResponseNotOk \/ NetworkError) => ButtonRestored']_vars
    /\ [][(ResponseNotOk \/ NetworkError)
             => contact'.fields = contact.fields]_vars
    /\ [][(contact.fields = "filled" /\ contact'.fields = "empty")
             => ResponseOk]_vars

\* a submission of the filled form ended in a network error: the button
\* is back and the fields are still filled
C33_Witness ==
    /\ contact.settled = "error"
    /\ contact.inFlight = << >>
    /\ contact.fields = "filled"
    /\ ButtonRestored
    /\ contact.notifications # << >>

====
